---- MODULE Spec2Model ----
(***************************************************************************)
(* Byte-pair-encoding trainer and tokenizer of unicode/model.py:           *)
(* Corpus.vocab, Model.pairs / Model.bigram / Model.merges, and            *)
(* Tokenizer.train / tokens / token_to_id / ranks / scores / encode /      *)
(* decode.                                                                 *)
(*                                                                         *)
(* Representation.  A Python str is a sequence of one-character strings    *)
(* (<<"l","o">> is "lo").  A Python dict is a sequence of records          *)
(* [key, val] with pairwise distinct keys, in insertion order (dicts keep  *)
(* insertion order, and max() and the loops of the program iterate in      *)
(* that order).  A Python list is a sequence.                              *)
(***************************************************************************)
EXTENDS Integers, Sequences, FiniteSets

VARIABLES words, num_merges, vocab, merges, pairs, i, pc, ret

vars == <<words, num_merges, vocab, merges, pairs, i, pc, ret>>

----------------------------------------------------------------------------
(* Bounds of the explored inputs.                                          *)

\* longest corpus word, in characters
MaxWordLen == 2
\* most words in a corpus
MaxWords == 2
\* largest round budget given to train, besides the default of the CLI
MaxMerges == 3
\* most symbols, over all its keys, of a vocabulary handed to Model.merges
MaxSymbols == 3
\* largest frequency of an entry of a vocabulary handed to Model.merges
MaxFreq == 2

\* the characters corpus words are drawn from
Letters == {"a", "b"}
\* the symbols the keys of a vocabulary handed to Model.merges are made of
Symbols == {<<"a">>, <<"b">>, <<"a", "b">>}

----------------------------------------------------------------------------
(* Python str and dict primitives.                                         *)

\* The characters of the model in code-point order, which is the order of
\* Python's str comparison (sorted() in Tokenizer.tokens).
Alphabet == <<" ", "a", "b", "c", "d", "e", "i", "l", "n", "o", "r", "s", "t", "w">>

Ord(c) == CHOOSE k \in 1..Len(Alphabet) : Alphabet[k] = c

\* s < t for two str: the first differing character decides, a proper
\* prefix is smaller.
StrLess(s, t) ==
    \E k \in 1..Len(t) :
        /\ \A j \in 1..(k - 1) : j <= Len(s) /\ s[j] = t[j]
        /\ k > Len(s) \/ Ord(s[k]) < Ord(t[k])

\* key in d
Has(d, k) == \E j \in 1..Len(d) : d[j].key = k

\* d[key], for a key of d
Get(d, k) == d[CHOOSE j \in 1..Len(d) : d[j].key = k].val

\* The list `items` held as a tuple.
Tuple(items) == SubSeq(items, 1, Len(items))

\* The dict left by `for item in items: d[item.key] = item.val`, d empty at
\* first: the keys in the order of their first assignment, each with the
\* value of its last assignment.
DictOf(items) ==
    LET n == Len(items)
        first == {k \in 1..n : \A j \in 1..(k - 1) : items[j].key # items[k].key}
        Nth(m) == CHOOSE k \in first : Cardinality({j \in first : j < k}) = m - 1
        LastOf(k) == CHOOSE l \in k..n :
                       /\ items[l].key = items[k].key
                       /\ \A j \in (l + 1)..n : items[j].key # items[k].key
    IN IF n = 0 THEN <<>>
       ELSE Tuple([m \in 1..Cardinality(first) |->
                     [key |-> items[Nth(m)].key, val |-> items[LastOf(Nth(m))].val]])

\* The sum of items[k].val over the indices k of the set at.
RECURSIVE SumAt(_, _)
SumAt(items, at) ==
    IF at = {} THEN 0
    ELSE LET k == CHOOSE k \in at : TRUE
         IN items[k].val + SumAt(items, at \ {k})

\* The defaultdict(int) left by `for item in items: d[item.key] += item.val`,
\* d empty at first: the keys in the order of their first occurrence, each
\* with the sum of the values added to it.
CounterOf(items) ==
    LET n == Len(items)
        first == {k \in 1..n : \A j \in 1..(k - 1) : items[j].key # items[k].key}
        Nth(m) == CHOOSE k \in first : Cardinality({j \in first : j < k}) = m - 1
    IN IF n = 0 THEN <<>>
       ELSE Tuple([m \in 1..Cardinality(first) |->
                     [key |-> items[Nth(m)].key,
                      val |-> SumAt(items, {j \in 1..n : items[j].key = items[Nth(m)].key})]])

\* list(word): one single-character str per character
List(word) == Tuple([k \in 1..Len(word) |-> <<word[k]>>])

\* " ".join(symbols[lo..hi]), for lo <= hi: the symbols with one space
\* between neighbours (the range is halved to keep the evaluation shallow)
RECURSIVE JoinRange(_, _, _)
JoinRange(symbols, lo, hi) ==
    IF lo = hi THEN symbols[lo]
    ELSE LET mid == (lo + hi) \div 2
         IN JoinRange(symbols, lo, mid) \o <<" ">> \o JoinRange(symbols, mid + 1, hi)

\* " ".join(symbols)
Join(symbols) == IF symbols = <<>> THEN <<>> ELSE JoinRange(symbols, 1, Len(symbols))

\* word.split(): the maximal runs of non-whitespace characters, in order
Split(word) ==
    LET n == Len(word)
        starts == {k \in 1..n : word[k] # " " /\ (k = 1 \/ word[k - 1] = " ")}
        Last(s) == CHOOSE e \in s..n :
                     /\ \A m \in s..e : word[m] # " "
                     /\ e = n \/ word[e + 1] = " "
        Start(j) == CHOOSE s \in starts : Cardinality({u \in starts : u < s}) = j - 1
    IN IF starts = {} THEN <<>>
       ELSE Tuple([j \in 1..Cardinality(starts) |-> SubSeq(word, Start(j), Last(Start(j)))])

----------------------------------------------------------------------------
(* Corpus                                                                  *)

Default ==
    << <<"l","o">>, <<"l","o","w">>, <<"l","o","w","e","r">>,
       <<"n","e","w","e","s","t">>, <<"w","i","d","e">>,
       <<"w","i","d","e","r">>, <<"w","i","d","e","s","t">> >>

\* Corpus.vocab, on the words Corpus.words returns:
\* for word in words: vocab[" ".join(list(word))] = 1
CorpusVocab(ws) ==
    DictOf(Tuple([k \in 1..Len(ws) |-> [key |-> Join(List(ws[k])), val |-> 1]]))

----------------------------------------------------------------------------
(* Model                                                                   *)

\* Model.pairs with the inner loop one position short,
\* range(len(symbols) - 2): the last pair of every entry is not counted
PairsSkipsLast(v) ==
    LET symbols == Tuple([e \in 1..Len(v) |-> Split(v[e].key)])
        at == UNION {{<<e, k>> : k \in 1..(Len(symbols[e]) - 2)} : e \in 1..Len(v)}
        Before(a, b) == a[1] < b[1] \/ (a[1] = b[1] /\ a[2] < b[2])
        Nth(m) == CHOOSE a \in at : Cardinality({b \in at : Before(b, a)}) = m - 1
        Item(a) == [key |-> <<symbols[a[1]][a[2]], symbols[a[1]][a[2] + 1]>>,
                    val |-> v[a[1]].val]
    IN IF at = {} THEN <<>>
       ELSE CounterOf(Tuple([m \in 1..Cardinality(at) |-> Item(Nth(m))]))

\* Model.pairs: for each entry in order and each position k of its symbols
\* but the last, in order: pairs[symbols[k], symbols[k + 1]] += freq
Pairs(v) ==
    LET symbols == Tuple([e \in 1..Len(v) |-> Split(v[e].key)])
        at == UNION {{<<e, k>> : k \in 1..(Len(symbols[e]) - 1)} : e \in 1..Len(v)}
        Before(a, b) == a[1] < b[1] \/ (a[1] = b[1] /\ a[2] < b[2])
        Nth(m) == CHOOSE a \in at : Cardinality({b \in at : Before(b, a)}) = m - 1
        Item(a) == [key |-> <<symbols[a[1]][a[2]], symbols[a[1]][a[2] + 1]>>,
                    val |-> v[a[1]].val]
    IN IF at = {} THEN <<>>
       ELSE CounterOf(Tuple([m \in 1..Cardinality(at) |-> Item(Nth(m))]))

\* Model.bigram, from position k of symbols on
RECURSIVE BigramFrom(_, _, _, _)
BigramFrom(symbols, pair, k, acc) ==
    IF k > Len(symbols) THEN acc
    ELSE IF k < Len(symbols) /\ symbols[k] = pair[1] /\ symbols[k + 1] = pair[2]
         THEN BigramFrom(symbols, pair, k + 2, Append(acc, symbols[k] \o symbols[k + 1]))
         ELSE BigramFrom(symbols, pair, k + 1, Append(acc, symbols[k]))

\* Model.bigram stepping by one after a merge (i += 1): the right symbol of
\* a merged pair is read again
RECURSIVE BigramOverlappingFrom(_, _, _, _)
BigramOverlappingFrom(symbols, pair, k, acc) ==
    IF k > Len(symbols) THEN acc
    ELSE IF k < Len(symbols) /\ symbols[k] = pair[1] /\ symbols[k + 1] = pair[2]
         THEN BigramOverlappingFrom(symbols, pair, k + 1, Append(acc, symbols[k] \o symbols[k + 1]))
         ELSE BigramOverlappingFrom(symbols, pair, k + 1, Append(acc, symbols[k]))

BigramOverlapping(symbols, pair) == BigramOverlappingFrom(symbols, pair, 1, <<>>)

\* Model.bigram appending symbols[i] alone for a merged pair
RECURSIVE BigramDropsRightFrom(_, _, _, _)
BigramDropsRightFrom(symbols, pair, k, acc) ==
    IF k > Len(symbols) THEN acc
    ELSE IF k < Len(symbols) /\ symbols[k] = pair[1] /\ symbols[k + 1] = pair[2]
         THEN BigramDropsRightFrom(symbols, pair, k + 2, Append(acc, symbols[k]))
         ELSE BigramDropsRightFrom(symbols, pair, k + 1, Append(acc, symbols[k]))

BigramDropsRight(symbols, pair) == BigramDropsRightFrom(symbols, pair, 1, <<>>)

\* Model.bigram
Bigram(symbols, pair) == BigramFrom(symbols, pair, 1, <<>>)

\* Model.merges: for each word of vocab in order,
\* new_vocab[" ".join(bigram(word.split(), pair))] = vocab[word]
Merges(v, pair) ==
    DictOf(Tuple([e \in 1..Len(v) |->
                    [key |-> Join(Tuple(Bigram(Split(v[e].key), pair))), val |-> v[e].val]]))

----------------------------------------------------------------------------
(* Tokenizer                                                               *)

\* max with ties going to the last maximal key (a >= in place of >)
BestLast(d) ==
    LET top == CHOOSE j \in 1..Len(d) :
                 /\ \A l \in 1..Len(d) : d[l].val <= d[j].val
                 /\ \A l \in (j + 1)..Len(d) : d[l].val < d[j].val
    IN d[top].key

\* max(pairs, key=pairs.get): the first key, in iteration order, whose value
\* no other value exceeds
Best(d) ==
    LET top == CHOOSE j \in 1..Len(d) :
                 /\ \A l \in 1..Len(d) : d[l].val <= d[j].val
                 /\ \A l \in 1..(j - 1) : d[l].val < d[j].val
    IN d[top].key

\* Tokenizer.tokens, the set built by the two loops
TokenSet(v) ==
    UNION {LET symbols == Split(v[k].key)
           IN {symbols[l] : l \in 1..Len(symbols)} : k \in 1..Len(v)}

\* sorted(list(token_set)): ascending in str order
Sorted(set) ==
    Tuple([k \in 1..Cardinality(set) |->
             CHOOSE x \in set : Cardinality({y \in set : StrLess(y, x)}) = k - 1])

\* Tokenizer.tokens
Tokens(v) == Sorted(TokenSet(v))

\* Tokenizer.token_to_id: {token: idx for idx, token in enumerate(self.tokens)}
TokenToId(v) ==
    LET tokens == Tokens(v)
    IN Tuple([k \in 1..Len(tokens) |-> [key |-> tokens[k], val |-> k - 1]])

\* Tokenizer.ranks: for i, pair in enumerate(self.merges):
\* rank_table["".join(pair)] = i
Ranks(ms) ==
    DictOf(Tuple([k \in 1..Len(ms) |-> [key |-> ms[k][1] \o ms[k][2], val |-> k - 1]]))

\* the float -math.log(x), kept symbolic
NegLog(x) == [fn |-> "-log", x |-> x]

\* the float -1e6
Sentinel == [fn |-> "float", x |-> -1000000]

\* self.ranks.get(token): <<rank>>, or <<>> for None
RankOf(ms, token) == IF Has(Ranks(ms), token) THEN <<Get(Ranks(ms), token)>> ELSE <<>>

\* truth value of `rank`: None and 0 are false
Truthy(rank) == rank # <<>> /\ rank[1] # 0

\* one entry of Tokenizer.scores:
\* -math.log(rank + 1) if rank else -1e6
ScoreOf(ms, token) ==
    LET rank == RankOf(ms, token)
    IN IF Truthy(rank) THEN NegLog(rank[1] + 1) ELSE Sentinel

\* Tokenizer.scores
Scores(v, ms) ==
    LET tokens == Tokens(v)
    IN Tuple([k \in 1..Len(tokens) |-> [key |-> tokens[k], val |-> ScoreOf(ms, tokens[k])]])

\* the outcome of a call: the exception raised ("" for none) and the value
Returned(value) == [raised |-> "", value |-> value]
Raised(exception) == [raised |-> exception, value |-> <<>>]

\* Tokenizer.encode: self.token_to_id[token], KeyError for a missing key.
\* The returned int is held in a one-element tuple.
Encode(v, token) ==
    LET table == TokenToId(v)
    IN IF Has(table, token) THEN Returned(<<Get(table, token)>>)
       ELSE Raised("KeyError")

\* Tokenizer.decode: self.id_to_token[id].  id_to_token is a property whose
\* getter takes a second parameter `id`; reading the attribute calls the
\* getter with self alone, which raises TypeError before any lookup.
Decode(v, id) == Raised("TypeError")

----------------------------------------------------------------------------
(* The program: __main__ builds the vocabulary, trains, and reports; a     *)
(* caller may then use encode and decode.                                  *)

RECURSIVE SeqsUpTo(_, _)
SeqsUpTo(A, n) ==
    IF n = 0 THEN {<<>>}
    ELSE LET shorter == SeqsUpTo(A, n - 1)
         IN shorter \cup {Append(s, a) : s \in {t \in shorter : Len(t) = n - 1}, a \in A}

Range(s) == {s[k] : k \in 1..Len(s)}

\* what Corpus.read can return: words are non-empty and hold no whitespace
CorpusWords == SeqsUpTo(Letters, MaxWordLen) \ {<<>>}

Corpora == SeqsUpTo(CorpusWords, MaxWords)

NoCall == [fn |-> "", arg |-> <<>>, out |-> Returned(<<>>)]

Start ==
    /\ vocab = <<>>
    /\ merges = <<>>
    /\ pairs = <<>>
    /\ i = 0
    /\ ret = NoCall

Init ==
    /\ \/ words \in Corpora /\ num_merges \in 0..MaxMerges
       \/ words = Default /\ num_merges = 10
    /\ pc = "vocab"
    /\ Start

\* vocab = Corpus.vocab(args.corpus); tokenizer = Tokenizer(vocab);
\* and the entry of train: self.merges = []
MainVocab ==
    /\ pc = "vocab"
    /\ vocab' = CorpusVocab(words)
    /\ merges' = <<>>
    /\ pc' = "train"
    /\ UNCHANGED <<words, num_merges, pairs, i, ret>>

\* one round of the loop of Tokenizer.train with a non-empty pair table
TrainRound ==
    /\ pc = "train"
    /\ i < num_merges
    /\ LET table == Pairs(vocab)
           best == Best(table)
       IN /\ table # <<>>
          /\ pairs' = table
          /\ merges' = Append(merges, best)
          /\ vocab' = Merges(vocab, best)
    /\ i' = i + 1
    /\ UNCHANGED <<words, num_merges, pc, ret>>

\* the round that finds the pair table empty: break
TrainExhausted ==
    /\ pc = "train"
    /\ i < num_merges
    /\ Pairs(vocab) = <<>>
    /\ pairs' = <<>>
    /\ pc' = "trained"
    /\ UNCHANGED <<words, num_merges, vocab, merges, i, ret>>

\* range(num_merges) is used up
TrainComplete ==
    /\ pc = "train"
    /\ i >= num_merges
    /\ pc' = "trained"
    /\ UNCHANGED <<words, num_merges, vocab, merges, pairs, i, ret>>

\* the tail of __main__: token_to_id, ranks and scores are printed
MainReport ==
    /\ pc = "trained"
    /\ ret' = [fn |-> "report", arg |-> <<>>,
               out |-> Returned([token_to_id |-> TokenToId(vocab),
                                 ranks |-> Ranks(merges),
                                 scores |-> Scores(vocab, merges)])]
    /\ pc' = "reported"
    /\ UNCHANGED <<words, num_merges, vocab, merges, pairs, i>>

\* tokenizer.encode(token), for a corpus word or a token
CallEncode ==
    /\ pc = "trained"
    /\ \E token \in Range(words) \cup TokenSet(vocab) :
         ret' = [fn |-> "encode", arg |-> token, out |-> Encode(vocab, token)]
    /\ pc' = "encoded"
    /\ UNCHANGED <<words, num_merges, vocab, merges, pairs, i>>

\* tokenizer.decode(id), for an assigned id or the first unassigned one
CallDecode ==
    /\ pc = "trained"
    /\ \E id \in 0..Len(Tokens(vocab)) :
         ret' = [fn |-> "decode", arg |-> <<id>>, out |-> Decode(vocab, id)]
    /\ pc' = "decoded"
    /\ UNCHANGED <<words, num_merges, vocab, merges, pairs, i>>

Train == TrainRound \/ TrainExhausted \/ TrainComplete

Next == MainVocab \/ Train \/ MainReport \/ CallEncode \/ CallDecode

Spec == Init /\ [][Next]_vars

\* The program is sequential: once started it runs to the end of train.
\* Running says that a step of MainVocab \/ Train can be taken: the guards of
\* the three branches of Train cover pc = "train", and each step changes pc
\* or i.
Running == pc \in {"vocab", "train"}

\* weak fairness of MainVocab \/ Train, that is WF_vars(MainVocab \/ Train)
\* with ENABLED <<MainVocab \/ Train>>_vars written as Running
RunsOn == []<>(~Running) \/ []<><<MainVocab \/ Train>>_vars

FairSpec == Spec /\ RunsOn

----------------------------------------------------------------------------
(* Model.merges and Model.bigram as functions of their arguments: a caller *)
(* builds a vocabulary dict entry by entry and calls them.                 *)

SymbolSeqs == SeqsUpTo(Symbols, MaxSymbols) \ {<<>>}

RECURSIVE SymbolCount(_)
SymbolCount(v) == IF v = <<>> THEN 0 ELSE Len(Split(Head(v).key)) + SymbolCount(Tail(v))

InitModel ==
    /\ words = <<>>
    /\ num_merges = 0
    /\ pc = "caller"
    /\ Start

\* vocab[" ".join(symbols)] = freq, for a new key
CallerInsert ==
    /\ pc = "caller"
    /\ \E symbols \in SymbolSeqs, freq \in 1..MaxFreq :
         /\ SymbolCount(vocab) + Len(symbols) <= MaxSymbols
         /\ ~Has(vocab, Join(symbols))
         /\ vocab' = Append(vocab, [key |-> Join(symbols), val |-> freq])
    /\ UNCHANGED <<words, num_merges, merges, pairs, i, pc, ret>>

\* Model.merges(vocab, pair)
CallMerges ==
    /\ pc = "caller"
    /\ \E pair \in Symbols \X Symbols :
         ret' = [fn |-> "merges", arg |-> pair, out |-> Returned(Merges(vocab, pair))]
    /\ pc' = "returned"
    /\ UNCHANGED <<words, num_merges, vocab, merges, pairs, i>>

\* Model.bigram(symbols, pair)
CallBigram ==
    /\ pc = "caller"
    /\ vocab = <<>>
    /\ \E symbols \in SymbolSeqs \cup {<<>>}, pair \in Symbols \X Symbols :
         ret' = [fn |-> "bigram", arg |-> <<symbols, pair>>,
                 out |-> Returned(Bigram(symbols, pair))]
    /\ pc' = "returned"
    /\ UNCHANGED <<words, num_merges, vocab, merges, pairs, i>>

NextModel == CallerInsert \/ CallMerges \/ CallBigram

SpecModel == InitModel /\ [][NextModel]_vars

----------------------------------------------------------------------------
(* Properties                                                              *)

\* total frequency of a vocabulary
RECURSIVE SumFreq(_)
SumFreq(d) == IF d = <<>> THEN 0 ELSE Head(d).val + SumFreq(Tail(d))

\* "".join(symbols)
RECURSIVE Concat(_)
Concat(symbols) == IF symbols = <<>> THEN <<>> ELSE Head(symbols) \o Concat(Tail(symbols))

\* p < q for two pairs of str: first element compared, then second
PairLess(p, q) == StrLess(p[1], q[1]) \/ (p[1] = q[1] /\ StrLess(p[2], q[2]))

\* the training is over (train has returned)
Trained == pc \in {"trained", "reported", "encoded", "decoded"}

\* C1: Model.merges conserves the total frequency: the frequencies of
\* merges(V, p) sum to those of V, two entries that the rewrite makes
\* identical giving one entry with the sum of their frequencies.
MergesConservesFrequency ==
    ret.fn = "merges" => SumFreq(ret.out.value) = SumFreq(vocab)

\* C2: the vocabulary built by Corpus.vocab has one entry per distinct word,
\* whose frequency is the number of occurrences of the word in the input, so
\* that the total frequency is the number of input words.
VocabCountsOccurrences ==
    (pc = "train" /\ i = 0) =>
        /\ SumFreq(vocab) = Len(words)
        /\ \A e \in 1..Len(vocab) :
             vocab[e].val =
               Cardinality({k \in 1..Len(words) : Join(List(words[k])) = vocab[e].key})

\* C3: the pair recorded by a training round has the maximum frequency of
\* the pair table of that round, and no pair of that frequency is
\* lexicographically smaller.
TrainSelectsSmallestMaximalPair ==
    (pc = "train" /\ i > 0) =>
        LET best == merges[Len(merges)]
        IN /\ Has(pairs, best)
           /\ \A e \in 1..Len(pairs) :
                /\ pairs[e].val <= Get(pairs, best)
                /\ pairs[e].val = Get(pairs, best) => ~PairLess(pairs[e].key, best)

\* Scenario A: the default corpus and 10 rounds
ScenarioA == words = Default /\ num_merges = 10

TrainOutcome ==
    /\ Len(merges) = i
    /\ \/ i = num_merges
       \/ /\ i < num_merges
          /\ \A e \in 1..Len(vocab) : Len(Split(vocab[e].key)) <= 1

\* merges is only appended to
MergesGrows ==
    /\ Len(merges) <= Len(merges')
    /\ SubSeq(merges', 1, Len(merges)) = merges

\* C5: train terminates; it has then recorded exactly N merges, or it
\* stopped at a round i < N whose pair table was empty, with i merges and a
\* vocabulary without two adjacent symbols; the merge table only grows.
TrainTerminates ==
    /\ <>Trained
    /\ [](Trained => TrainOutcome)
    /\ [][MergesGrows]_vars

\* train stopped early, after at least one merge
TrainStoppedEarly == pc = "trained" /\ 0 < i /\ i < num_merges

\* C6: every token of the final vocabulary scores the sentinel when no
\* recorded merge produced it, and -ln(rank + 1) when the merge of round
\* rank produced it (0.0, that is -ln(1), for round 0).
ScoresFollowRank ==
    ret.fn = "report" =>
        \A e \in 1..Len(ret.out.value.scores) :
            LET token == ret.out.value.scores[e].key
                score == ret.out.value.scores[e].val
                rounds == {r \in 0..(Len(merges) - 1) :
                             merges[r + 1][1] \o merges[r + 1][2] = token}
            IN IF rounds = {} THEN score = Sentinel
               ELSE \E r \in rounds : score = NegLog(r + 1)

\* the symbols of word w after the merges ms[k..] are applied in order
RECURSIVE Symbolization(_, _, _)
Symbolization(symbols, ms, k) ==
    IF k > Len(ms) THEN symbols
    ELSE Symbolization(Bigram(symbols, ms[k]), ms, k + 1)

\* C7: encode of a corpus word returns the ids of the symbols of the word
\* in the final vocabulary, and decode of an assigned id returns its token.
EncodeDecodeRoundTrip ==
    /\ (ret.fn = "encode" /\ ret.arg \in Range(words)) =>
         LET symbols == Symbolization(List(ret.arg), merges, 1)
         IN ret.out = Returned([k \in 1..Len(symbols) |-> Get(TokenToId(vocab), symbols[k])])
    /\ (ret.fn = "decode" /\ ret.arg[1] < Len(Tokens(vocab))) =>
         ret.out = Returned(Tokens(vocab)[ret.arg[1] + 1])

\* C9: Model.bigram(s, (left, right)) replaces the occurrences of left
\* followed by right, found left to right without overlap, by left+right:
\* the result is s with the pairs starting at the positions `taken` merged,
\* a position being taken when the pair occurs there and the position
\* before is not taken; left is nowhere followed by right in the result,
\* the text is unchanged, and [a, a, a] with (a, a) gives [aa, a].
BigramMergesLeftToRight ==
    ret.fn = "bigram" =>
        LET s == ret.arg[1]
            left == ret.arg[2][1]
            right == ret.arg[2][2]
            r == ret.out.value
            n == Len(s)
            Occurs(k) == k < n /\ s[k] = left /\ s[k + 1] = right
            taken == CHOOSE T \in SUBSET (1..n) :
                       \A k \in 1..n : k \in T <=> (Occurs(k) /\ (k - 1) \notin T)
            heads == {k \in 1..n : (k - 1) \notin taken}
            Nth(m) == CHOOSE k \in heads : Cardinality({j \in heads : j < k}) = m - 1
        IN /\ ret.out.raised = ""
           /\ Len(r) = Cardinality(heads)
           /\ \A m \in 1..Len(r) :
                r[m] = IF Nth(m) \in taken THEN left \o right ELSE s[Nth(m)]
           /\ \A m \in 1..(Len(r) - 1) : ~(r[m] = left /\ r[m + 1] = right)
           /\ Concat(r) = Concat(s)
           /\ (s = << <<"a">>, <<"a">>, <<"a">> >> /\ left = <<"a">> /\ right = <<"a">>)
                => r = << <<"a", "a">>, <<"a">> >>

\* bigram was called on [a, a, a] with (a, a)
BigramOnTripleA ==
    /\ ret.fn = "bigram"
    /\ ret.arg = << << <<"a">>, <<"a">>, <<"a">> >>, << <<"a">>, <<"a">> >> >>

\* C10: during training every entry of the vocabulary still spells the
\* corpus word it was built from, the words of different entries differ, and
\* the number of entries and the total frequency are those of the
\* vocabulary Corpus.vocab built.
TrainKeepsEntriesDistinct ==
    pc # "vocab" =>
        LET built == CorpusVocab(words)
            Word(d, e) == Concat(Split(d[e].key))
        IN /\ Len(vocab) = Len(built)
           /\ SumFreq(vocab) = SumFreq(built)
           /\ \A e \in 1..Len(vocab) :
                /\ Word(vocab, e) = Word(built, e)
                /\ Word(vocab, e) \in Range(words)
                /\ \A f \in 1..Len(vocab) : e # f => Word(vocab, e) # Word(vocab, f)

\* two rounds have rewritten a vocabulary of two entries
TwoRoundsOnTwoEntries == pc = "train" /\ i >= 2 /\ Len(vocab) >= 2

====
